---- MODULE Spec2Model ----
(***************************************************************************)
(* Model of the room coordinator of src/server.js: the socket.io event     *)
(* handlers (join-room, send-message, typing, WebRTC signalling, call      *)
(* bookkeeping, disconnect, ping), the SQLite tables they read and write,  *)
(* and the periodic cleanup of offline users.                              *)
(*                                                                         *)
(* A handler is an async function: it runs synchronously up to its first   *)
(* await, and is resumed once per awaited store call.  Every in-flight     *)
(* handler is a record of the set tasks; one step of a task is the store   *)
(* executing the call the task waits for, followed by the handler's code   *)
(* up to the next await (store calls complete in the order the store       *)
(* executes them).  Steps of different tasks interleave freely, also of    *)
(* tasks of the same connection.                                           *)
(*                                                                         *)
(* db.get returns the first matching row in rowid (insertion) order, and   *)
(* an ORDER BY leaves rows of equal key in rowid order.  uuidv4() hands    *)
(* out 1, 2, 3, ...  An emit is recorded with the connections it reached:  *)
(* socket.io delivers to connected sockets only, and a socket leaves its   *)
(* rooms when it disconnects.                                              *)
(*                                                                         *)
(* SpecPresence runs the join-room and disconnect handlers, SpecChat the   *)
(* join-room, send-message and relay handlers, Spec all of them together   *)
(* with the cleanup timer and the clock.  SpecSession runs every handler   *)
(* but ping, with store failures in the call bookkeeping only;             *)
(* SpecSessionJoined does so from the state in which a first connection    *)
(* has joined a room, which leaves MaxEvents further events for the run.   *)
(* SpecSweep runs joins, disconnects, the cleanup timer and the clock from *)
(* that state.                                                             *)
(***************************************************************************)
EXTENDS Integers, Sequences, FiniteSets, TLC

\* ---------------------------------------------------------------- bounds
MaxEvents == 3        \* inbound events handled in one run
MaxInFlight == 2      \* handlers suspended on the store at the same time
MaxFailures == 1      \* store calls that fail in one run
MaxTime == 2          \* clock ticks (hours) in one run

\* Connection ids and room codes are opaque to the code (it only stores them
\* and compares them for equality), so a run numbers them in order of first
\* use: c2 sends no event before c1 has, r2 is joined only after r1 was.
ConnOrder == <<"c1", "c2">>
RoomOrder == <<"r1", "r2">>
Conns == {ConnOrder[i] : i \in 1..Len(ConnOrder)}
RoomCodes == {RoomOrder[i] : i \in 1..Len(RoomOrder)}
NameOrder == <<"alice", "bob">>      \* usernames, in collation order
Names == {NameOrder[i] : i \in 1..Len(NameOrder)}
CallTypes == {"audio", "video"}
Bodies == {"hi"}

None == "none"

\* datetime("now", "-1 hour"): the clock counts hours
RetentionHours == 1
\* LIMIT 10 of the call-history query
CallHistoryLimit == 10

VARIABLES
    rooms,        \* table rooms: sequence of rows, in rowid order
    users,        \* table users
    messages,     \* table messages
    calls,        \* table calls
    activeCalls,  \* Map roomCode -> {callType, initiator}: <<>> when the room has
                  \* no entry, else a one-element sequence holding the entry
    sock,         \* per connection: liveness, socket.roomCode/userId/username,
                  \* the socket.io rooms the socket is a member of, and (by) the
                  \* number of the join-room event that set the three fields
    tasks,        \* handlers suspended on a store call
    log,          \* every emit so far, in order, with the connections it reached
    now,          \* CURRENT_TIMESTAMP
    nextEvt,      \* number given to the next inbound event
    uuids,        \* uuidv4() values handed out so far
    failed,       \* the store calls made to fail so far: handler, call, and the
                  \* other live sockets of the handler's room at that moment
    overlap,      \* pairs <<n1, n2>> of handlers that were in flight together
    seen          \* how many connections / room codes the run has used so far

vars == <<rooms, users, messages, calls, activeCalls, sock, tasks, log, now,
          nextEvt, uuids, failed, overlap, seen>>

store == <<rooms, users, messages, calls>>

\* ------------------------------------------------------------- helpers
NameRank(u) == CHOOSE i \in 1..Len(NameOrder) : NameOrder[i] = u

RECURSIVE MapIds(_)
MapIds(s) == IF s = <<>> THEN <<>> ELSE <<Head(s).id>> \o MapIds(Tail(s))

Prefix(s, k) == IF Len(s) <= k THEN s ELSE SubSeq(s, 1, k)

\* A task: the handler's event number, connection, kind, the store call it
\* waits for, and the locals the rest of the handler reads; changes holds the
\* ids of the rows that the handler's UPDATE turned from online to offline
\* (dbRun resolves with the number of rows updated, this.changes).
Task(n, c, kind, pc, room, name, uid, body) ==
    [n |-> n, conn |-> c, kind |-> kind, pc |-> pc, room |-> room,
     name |-> name, uid |-> uid, body |-> body, rid |-> 0, users |-> <<>>,
     msgs |-> <<>>, changes |-> {}]

\* One emit: the event, the handler that emitted it, the room it was addressed
\* to (for 'room-joined' the roomCode of its payload, None for 'error' and
\* 'pong'), the connections that received it, the payload.
Notice(ev, n, from, room, to, uid, name, mid, us, ms, cs) ==
    [ev |-> ev, n |-> n, from |-> from, room |-> room, to |-> to, uid |-> uid,
     name |-> name, mid |-> mid, users |-> us, msgs |-> ms, calls |-> cs,
     text |-> None]

\* socket.emit: reaches the socket if it is still connected
ToSocket(c) == IF sock[c].connected THEN {c} ELSE {}

\* socket.emit('error', { message: text })
ErrorNotice(n, c, text) ==
    [Notice("error", n, c, None, ToSocket(c), 0, None, 0, <<>>, <<>>, <<>>)
        EXCEPT !.text = text]

\* io.to(room): the connected sockets that are members of the socket.io room
InRoom(r) == {c \in Conns : sock[c].connected /\ r \in sock[c].rooms}

\* socket.to(room): the same, without the emitting socket
Others(c, r) == InRoom(r) \ {c}

ConnRank(c) == CHOOSE i \in 1..Len(ConnOrder) : ConnOrder[i] = c
RoomRank(r) == CHOOSE i \in 1..Len(RoomOrder) : RoomOrder[i] = r
Max(a, b) == IF a >= b THEN a ELSE b

\* An inbound event of connection c arrives: c is live, and is the next unused
\* connection at most.
Arrives(c) ==
    /\ sock[c].connected
    /\ nextEvt <= MaxEvents
    /\ ConnRank(c) <= seen.conns + 1
    /\ nextEvt' = nextEvt + 1

\* the handler of event nextEvt suspends on a store call
Suspend(t) ==
    /\ tasks' = tasks \cup {t}
    /\ overlap' = overlap \cup {<<o.n, t.n>> : o \in tasks}

CanSuspend == Cardinality(tasks) < MaxInFlight
CanFail == Cardinality(failed) < MaxFailures

\* the store call that task t waits for fails
Fails(t) ==
    /\ CanFail
    /\ failed' = failed \cup
          {[n |-> t.n, conn |-> t.conn, kind |-> t.kind, pc |-> t.pc,
            others |-> Others(t.conn, sock[t.conn].roomCode)]}

Init ==
    /\ rooms = <<>>
    /\ users = <<>>
    /\ messages = <<>>
    /\ calls = <<>>
    /\ activeCalls = [r \in RoomCodes |-> <<>>]
    /\ sock = [c \in Conns |-> [connected |-> TRUE, roomCode |-> None,
                                userId |-> 0, username |-> None, rooms |-> {},
                                by |-> 0]]
    /\ tasks = {}
    /\ log = <<>>
    /\ now = 0
    /\ nextEvt = 1
    /\ uuids = 0
    /\ failed = {}
    /\ overlap = {}
    /\ seen = [conns |-> 0, rooms |-> 0]

\* ------------------------------------------------------------ the store
\* ORDER BY: rows tagged with an integer key k, ascending, rows of equal key
\* in rowid order.
RECURSIVE InsertKeyed(_, _)
InsertKeyed(e, s) ==
    IF s = <<>> THEN <<e>>
    ELSE IF e.k < Head(s).k THEN <<e>> \o s
    ELSE <<Head(s)>> \o InsertKeyed(e, Tail(s))

RECURSIVE SortKeyed(_)
SortKeyed(s) ==
    IF s = <<>> THEN <<>>
    ELSE InsertKeyed(s[Len(s)], SortKeyed(SubSeq(s, 1, Len(s) - 1)))

RECURSIVE Rows(_)
Rows(s) == IF s = <<>> THEN <<>> ELSE <<Head(s).row>> \o Rows(Tail(s))

\* db.get: the first row of the result, as a sequence of at most one row
\* (<<>> is the undefined that db.get yields for an empty result)
FirstRow(hits) == Prefix(hits, 1)

\* SELECT * FROM rooms WHERE code = ?
SelectRoom(code) ==
    LET Hit(r) == r.code = code
    IN FirstRow(SelectSeq(rooms, Hit))

\* rooms.code is UNIQUE: an insert of a code already stored is rejected
RoomCodeFree(code) == \A i \in 1..Len(rooms) : rooms[i].code # code

\* INSERT INTO rooms (id, code)
InsertRoom(id, code) == Append(rooms, [id |-> id, code |-> code])

\* SELECT * FROM users WHERE room_code = ? AND username = ?   (db.get)
SelectUser(room, name) ==
    LET Hit(u) == u.room_code = room /\ u.username = name
    IN FirstRow(SelectSeq(users, Hit))

\* UPDATE users SET socket_id = ?, is_online = 1, last_seen = CURRENT_TIMESTAMP
\* WHERE id = ?
UpdateUserOnline(c, uid) ==
    [i \in 1..Len(users) |->
        IF users[i].id = uid
        THEN [users[i] EXCEPT !.socket_id = c, !.is_online = 1, !.last_seen = now]
        ELSE users[i]]

\* INSERT INTO users (id, room_code, username, socket_id): the table has no
\* uniqueness constraint besides the primary key id
InsertUser(uid, room, name, c) ==
    Append(users, [id |-> uid, room_code |-> room, username |-> name,
                   socket_id |-> c, is_online |-> 1, last_seen |-> now])

\* SELECT id, username, is_online, last_seen FROM users WHERE room_code = ?
\* ORDER BY is_online DESC, username ASC
UserSortKey(u) == (1 - u.is_online) * (Len(NameOrder) + 1) + NameRank(u.username)

SelectRoomUsers(room) ==
    LET Hit(u) == u.room_code = room
        hits == SelectSeq(users, Hit)
        keyed == [i \in 1..Len(hits) |-> [k |-> UserSortKey(hits[i]), row |-> hits[i]]]
    IN Rows(SortKeyed(keyed))

\* users.map(u => ({id, username, isOnline, ...}))
MemberList(rows) ==
    [i \in 1..Len(rows) |->
        [id |-> rows[i].id, username |-> rows[i].username,
         isOnline |-> rows[i].is_online]]

\* SELECT m.*, u.username FROM messages m LEFT JOIN users u ON m.user_id = u.id
\* WHERE m.room_code = ? ORDER BY m.created_at ASC
\* (u.username replaces m.username in the row object; NULL without a user row)
JoinedUsername(m) ==
    LET Hit(u) == u.id = m.user_id
        hits == SelectSeq(users, Hit)
    IN IF hits = <<>> THEN None ELSE Head(hits).username

SelectRoomMessages(room) ==
    LET Hit(m) == m.room_code = room
        hits == SelectSeq(messages, Hit)
        keyed == [i \in 1..Len(hits) |->
                    [k |-> hits[i].created_at,
                     row |-> [id |-> hits[i].id, username |-> JoinedUsername(hits[i])]]]
    IN Rows(SortKeyed(keyed))

\* SELECT * FROM calls WHERE room_code = ? ORDER BY started_at DESC LIMIT 10
SelectRoomCalls(room) ==
    LET Hit(k) == k.room_code = room
        hits == SelectSeq(calls, Hit)
        keyed == [i \in 1..Len(hits) |-> [k |-> 0 - hits[i].started_at, row |-> hits[i]]]
    IN Prefix(MapIds(Rows(SortKeyed(keyed))), CallHistoryLimit)

\* --------------------------------------------------------- join-room
Finish(t) == tasks \ {t}
Resume(t, t2) == (tasks \ {t}) \cup {t2}

\* socket.on('join-room'): the handler issues the room lookup and suspends.
JoinRoom(c, r, u) ==
    /\ Arrives(c) /\ CanSuspend
    /\ RoomRank(r) <= seen.rooms + 1
    /\ seen' = [conns |-> Max(seen.conns, ConnRank(c)),
                rooms |-> Max(seen.rooms, RoomRank(r))]
    /\ Suspend(Task(nextEvt, c, "join", "getRoom", r, u, 0, None))
    /\ UNCHANGED <<store, activeCalls, sock, log, now, uuids, failed>>

\* The room lookup returns: draw a room id and insert the room if there is
\* none, else look up the user.
JoinGetRoom(t) ==
    /\ t.kind = "join" /\ t.pc = "getRoom"
    /\ IF SelectRoom(t.room) = <<>>
       THEN /\ tasks' = Resume(t, [t EXCEPT !.pc = "insRoom", !.rid = uuids + 1])
            /\ uuids' = uuids + 1
       ELSE /\ tasks' = Resume(t, [t EXCEPT !.pc = "getUser"])
            /\ UNCHANGED uuids
    /\ UNCHANGED <<store, activeCalls, sock, log, now, nextEvt, failed, overlap, seen>>

\* catch of join-room: socket.emit('error')
JoinError(t) == Append(log, ErrorNotice(t.n, t.conn, "Failed to join room"))

\* The room insert executes: it succeeds, or the UNIQUE constraint on code
\* rejects it and the handler's catch reports the error.
JoinInsRoom(t) ==
    /\ t.kind = "join" /\ t.pc = "insRoom"
    /\ IF RoomCodeFree(t.room)
       THEN /\ rooms' = InsertRoom(t.rid, t.room)
            /\ tasks' = Resume(t, [t EXCEPT !.pc = "getUser"])
            /\ UNCHANGED log
       ELSE /\ tasks' = Finish(t)
            /\ log' = JoinError(t)
            /\ UNCHANGED rooms
    /\ UNCHANGED <<users, messages, calls, activeCalls, sock, now, nextEvt, uuids, failed,
                   overlap, seen>>

\* The user lookup returns: reuse the id of the row found, or draw a new id.
JoinGetUser(t) ==
    /\ t.kind = "join" /\ t.pc = "getUser"
    /\ LET existingUser == SelectUser(t.room, t.name) IN
       IF existingUser # <<>>
       THEN /\ tasks' = Resume(t, [t EXCEPT !.pc = "updUser", !.uid = existingUser[1].id])
            /\ UNCHANGED uuids
       ELSE /\ tasks' = Resume(t, [t EXCEPT !.pc = "insUser", !.uid = uuids + 1])
            /\ uuids' = uuids + 1
    /\ UNCHANGED <<store, activeCalls, sock, log, now, nextEvt, failed, overlap, seen>>

\* socket.join(roomCode); socket.roomCode/userId/username = ...
Register(t) ==
    [sock EXCEPT ![t.conn] = [@ EXCEPT !.rooms = @ \cup {t.room},
                                       !.roomCode = t.room,
                                       !.userId = t.uid,
                                       !.username = t.name,
                                       !.by = t.n]]

\* The update of the existing user row executes; the handler registers the
\* socket and issues the member-list query.
JoinUpdUser(t) ==
    /\ t.kind = "join" /\ t.pc = "updUser"
    /\ users' = UpdateUserOnline(t.conn, t.uid)
    /\ sock' = Register(t)
    /\ tasks' = Resume(t, [t EXCEPT !.pc = "qUsers"])
    /\ UNCHANGED <<rooms, messages, calls, activeCalls, log, now, nextEvt, uuids, failed, overlap, seen>>

\* The insert of the new user row executes; then as above.
JoinInsUser(t) ==
    /\ t.kind = "join" /\ t.pc = "insUser"
    /\ users' = InsertUser(t.uid, t.room, t.name, t.conn)
    /\ sock' = Register(t)
    /\ tasks' = Resume(t, [t EXCEPT !.pc = "qUsers"])
    /\ UNCHANGED <<rooms, messages, calls, activeCalls, log, now, nextEvt, uuids, failed, overlap, seen>>

\* The member-list query returns.
JoinQueryUsers(t) ==
    /\ t.kind = "join" /\ t.pc = "qUsers"
    /\ tasks' = Resume(t, [t EXCEPT !.pc = "qMsgs",
                                    !.users = MemberList(SelectRoomUsers(t.room))])
    /\ UNCHANGED <<store, activeCalls, sock, log, now, nextEvt, uuids, failed, overlap, seen>>

\* The message-history query returns.
JoinQueryMessages(t) ==
    /\ t.kind = "join" /\ t.pc = "qMsgs"
    /\ tasks' = Resume(t, [t EXCEPT !.pc = "qCalls", !.msgs = SelectRoomMessages(t.room)])
    /\ UNCHANGED <<store, activeCalls, sock, log, now, nextEvt, uuids, failed, overlap, seen>>

\* The call-history query returns: room-joined to the socket, user-joined to
\* the other sockets of the room.
JoinQueryCalls(t) ==
    /\ t.kind = "join" /\ t.pc = "qCalls"
    /\ log' = log \o
         << Notice("room-joined", t.n, t.conn, t.room, ToSocket(t.conn), t.uid, t.name,
                   0, t.users, t.msgs, SelectRoomCalls(t.room)),
            Notice("user-joined", t.n, t.conn, t.room, Others(t.conn, t.room), t.uid,
                   t.name, 0, t.users, <<>>, <<>>) >>
    /\ tasks' = Finish(t)
    /\ UNCHANGED <<store, activeCalls, sock, now, nextEvt, uuids, failed, overlap, seen>>

\* A store call of join-room fails (any of them): the catch reports the error
\* to the joining socket and the handler ends.
JoinStoreError(t) ==
    /\ t.kind = "join"
    /\ Fails(t)
    /\ log' = JoinError(t)
    /\ tasks' = Finish(t)
    /\ UNCHANGED <<store, activeCalls, sock, now, nextEvt, uuids, overlap, seen>>

\* ------------------------------------------------------- send-message
\* (variant: the handler without its room check)
InARoomUnchecked(c) == TRUE

\* if (!socket.roomCode || !socket.userId) throw
InARoom(c) == sock[c].roomCode # None /\ sock[c].userId # 0

\* socket.on('send-message') without a room: the throw lands in the catch, which
\* emits 'error' to the socket.
SendMessageRejected(c, body) ==
    /\ Arrives(c)
    /\ ~InARoom(c)
    /\ seen' = [seen EXCEPT !.conns = Max(@, ConnRank(c))]
    /\ log' = Append(log, ErrorNotice(nextEvt, c, "Failed to send message"))
    /\ UNCHANGED <<store, activeCalls, sock, tasks, now, uuids, failed, overlap>>

\* socket.on('send-message') in a room: the insert is issued with the socket's
\* room, user id and username of this moment, and the handler suspends.
SendMessage(c, body) ==
    /\ Arrives(c) /\ CanSuspend
    /\ InARoom(c)
    /\ seen' = [seen EXCEPT !.conns = Max(@, ConnRank(c))]
    /\ Suspend(Task(nextEvt, c, "send", "insMsg", sock[c].roomCode, sock[c].username,
                    sock[c].userId, body))
    /\ UNCHANGED <<store, activeCalls, sock, log, now, uuids, failed>>

\* INSERT INTO messages (room_code, user_id, username, message, message_type):
\* id is the AUTOINCREMENT key, created_at the default CURRENT_TIMESTAMP
InsertMessage(room, uid, name, body) ==
    Append(messages, [id |-> Len(messages) + 1, room_code |-> room, user_id |-> uid,
                      username |-> name, message |-> body, message_type |-> "text",
                      created_at |-> now])

\* io.to(socket.roomCode).emit('new-message', newMessage): result.id with the
\* socket's room, user id and username as they are after the await
NewMessage(t, mid) ==
    Notice("new-message", t.n, t.conn, sock[t.conn].roomCode,
           InRoom(sock[t.conn].roomCode), sock[t.conn].userId, sock[t.conn].username,
           mid, <<>>, <<>>, <<>>)

\* The insert executes and the handler broadcasts the stored message.
SendInsert(t) ==
    /\ t.kind = "send" /\ t.pc = "insMsg"
    /\ messages' = InsertMessage(t.room, t.uid, t.name, t.body)
    /\ log' = Append(log, NewMessage(t, Len(messages) + 1))
    /\ tasks' = Finish(t)
    /\ UNCHANGED <<rooms, users, calls, activeCalls, sock, now, nextEvt, uuids, failed,
                   overlap, seen>>

\* (variant: the message is broadcast without waiting for the insert)
SendFailedBroadcast(t) ==
    << NewMessage(t, Len(messages) + 1),
       ErrorNotice(t.n, t.conn, "Failed to send message") >>

\* what the handler emits when the insert is rejected: the catch's 'error'
SendFailed(t) == << ErrorNotice(t.n, t.conn, "Failed to send message") >>

\* The insert fails.
SendStoreError(t) ==
    /\ t.kind = "send"
    /\ Fails(t)
    /\ log' = log \o SendFailed(t)
    /\ tasks' = Finish(t)
    /\ UNCHANGED <<store, activeCalls, sock, now, nextEvt, uuids, overlap, seen>>

\* ------------------------------------------- typing and WebRTC signalling
\* The relays run to completion on arrival; without socket.roomCode they do
\* nothing at all.
Relay(c, ev, name) ==
    /\ Arrives(c)
    /\ sock[c].roomCode # None
    /\ seen' = [seen EXCEPT !.conns = Max(@, ConnRank(c))]
    /\ log' = Append(log, Notice(ev, nextEvt, c, sock[c].roomCode,
                                 Others(c, sock[c].roomCode), sock[c].userId, name, 0,
                                 <<>>, <<>>, <<>>))
    /\ UNCHANGED <<store, sock, tasks, now, uuids, failed, overlap>>

TypingStart(c) == Relay(c, "user-typing-start", sock[c].username) /\ UNCHANGED activeCalls

TypingStop(c) == Relay(c, "user-typing-stop", None) /\ UNCHANGED activeCalls

\* (variant: an entry that exists is kept)
OfferKeepsEntry(c, ct) ==
    /\ Relay(c, "offer", sock[c].username)
    /\ activeCalls' = [activeCalls EXCEPT ![sock[c].roomCode] =
                          IF @ = <<>>
                          THEN <<[callType |-> ct, initiator |-> sock[c].userId]>>
                          ELSE @]

\* activeCalls.set(socket.roomCode, {callType, initiator: socket.userId})
Offer(c, ct) ==
    /\ Relay(c, "offer", sock[c].username)
    /\ activeCalls' = [activeCalls EXCEPT ![sock[c].roomCode] =
                          <<[callType |-> ct, initiator |-> sock[c].userId]>>]

Answer(c) == Relay(c, "answer", None) /\ UNCHANGED activeCalls

IceCandidate(c) == Relay(c, "ice-candidate", None) /\ UNCHANGED activeCalls

\* socket.on('ping'): 'pong' to the socket
Ping(c) ==
    /\ Arrives(c)
    /\ seen' = [seen EXCEPT !.conns = Max(@, ConnRank(c))]
    /\ log' = Append(log, Notice("pong", nextEvt, c, None, ToSocket(c), 0, None, 0,
                                 <<>>, <<>>, <<>>))
    /\ UNCHANGED <<store, activeCalls, sock, tasks, now, uuids, failed, overlap>>

\* ------------------------------------------------- end-call, call-started
\* socket.on('end-call'): the tracker entry is deleted at once, the update of
\* the call rows is issued for the socket's room of this moment.
EndCall(c) ==
    /\ Arrives(c) /\ CanSuspend
    /\ sock[c].roomCode # None
    /\ seen' = [seen EXCEPT !.conns = Max(@, ConnRank(c))]
    /\ activeCalls' = [activeCalls EXCEPT ![sock[c].roomCode] = <<>>]
    /\ Suspend(Task(nextEvt, c, "end-call", "updCalls", sock[c].roomCode, None, 0, None))
    /\ UNCHANGED <<store, sock, log, now, uuids, failed>>

\* UPDATE calls SET status = "ended", ended_at = CURRENT_TIMESTAMP
\* WHERE room_code = ? AND status = "active"
EndActiveCalls(room) ==
    [i \in 1..Len(calls) |->
        IF calls[i].room_code = room /\ calls[i].status = "active"
        THEN [calls[i] EXCEPT !.status = "ended", !.ended_at = now]
        ELSE calls[i]]

\* The update executes; 'call-ended' goes to the other sockets of the room.
EndCallUpdate(t) ==
    /\ t.kind = "end-call" /\ t.pc = "updCalls"
    /\ calls' = EndActiveCalls(t.room)
    /\ log' = Append(log, Notice("call-ended", t.n, t.conn, sock[t.conn].roomCode,
                                 Others(t.conn, sock[t.conn].roomCode),
                                 sock[t.conn].userId, sock[t.conn].username, 0,
                                 <<>>, <<>>, <<>>))
    /\ tasks' = Finish(t)
    /\ UNCHANGED <<rooms, users, messages, activeCalls, sock, now, nextEvt, uuids, failed,
                   overlap, seen>>

\* The update fails: the handler has no try/catch, its promise rejects and
\* nothing is emitted.
EndCallStoreError(t) ==
    /\ t.kind = "end-call"
    /\ Fails(t)
    /\ tasks' = Finish(t)
    /\ UNCHANGED <<store, activeCalls, sock, log, now, nextEvt, uuids, overlap, seen>>

\* socket.on('call-started'): the insert is issued for the socket's room, user
\* id and username of this moment.
CallStarted(c, ct) ==
    /\ Arrives(c) /\ CanSuspend
    /\ sock[c].roomCode # None
    /\ seen' = [seen EXCEPT !.conns = Max(@, ConnRank(c))]
    /\ Suspend(Task(nextEvt, c, "call-started", "insCall", sock[c].roomCode,
                    sock[c].username, sock[c].userId, ct))
    /\ UNCHANGED <<store, activeCalls, sock, log, now, uuids, failed>>

\* INSERT INTO calls (room_code, call_type, initiator_id, initiator_name):
\* status defaults to 'active', started_at to CURRENT_TIMESTAMP, ended_at NULL
InsertCall(room, ct, uid, name) ==
    Append(calls, [id |-> Len(calls) + 1, room_code |-> room, call_type |-> ct,
                   initiator_id |-> uid, initiator_name |-> name, status |-> "active",
                   started_at |-> now, ended_at |-> -1])

CallStartedInsert(t) ==
    /\ t.kind = "call-started" /\ t.pc = "insCall"
    /\ calls' = InsertCall(t.room, t.body, t.uid, t.name)
    /\ tasks' = Finish(t)
    /\ UNCHANGED <<rooms, users, messages, activeCalls, sock, log, now, nextEvt, uuids,
                   failed, overlap, seen>>

\* The insert fails: the catch logs it.
CallStartedStoreError(t) ==
    /\ t.kind = "call-started"
    /\ Fails(t)
    /\ tasks' = Finish(t)
    /\ UNCHANGED <<store, activeCalls, sock, log, now, nextEvt, uuids, overlap, seen>>

\* ----------------------------------------------------------- disconnect
\* The transport drops the connection: the socket has left its socket.io rooms
\* when 'disconnect' fires.
Dropped(c) == [sock EXCEPT ![c] = [@ EXCEPT !.connected = FALSE, !.rooms = {}]]

\* socket.on('disconnect') of a socket that has no room: nothing to do.
DisconnectIdle(c) ==
    /\ Arrives(c)
    /\ ~InARoom(c)
    /\ seen' = [seen EXCEPT !.conns = Max(@, ConnRank(c))]
    /\ sock' = Dropped(c)
    /\ UNCHANGED <<store, activeCalls, tasks, log, now, uuids, failed, overlap>>

\* socket.on('disconnect') of a socket in a room: the offline update is issued.
Disconnect(c) ==
    /\ Arrives(c) /\ CanSuspend
    /\ InARoom(c)
    /\ seen' = [seen EXCEPT !.conns = Max(@, ConnRank(c))]
    /\ sock' = Dropped(c)
    /\ Suspend(Task(nextEvt, c, "disconnect", "markOff", None, None, 0, None))
    /\ UNCHANGED <<store, activeCalls, log, now, uuids, failed>>

\* (variant: the update keyed on the socket's user id, WHERE id = ?)
MarkOfflineByUser(c) ==
    [i \in 1..Len(users) |->
        IF users[i].id = sock[c].userId
        THEN [users[i] EXCEPT !.is_online = 0, !.last_seen = now]
        ELSE users[i]]

\* UPDATE users SET is_online = 0, last_seen = CURRENT_TIMESTAMP WHERE socket_id = ?
MarkOffline(c) ==
    [i \in 1..Len(users) |->
        IF users[i].socket_id = c
        THEN [users[i] EXCEPT !.is_online = 0, !.last_seen = now]
        ELSE users[i]]

\* the rows that the offline update of connection c turns from online to offline
MarkedOffline(c) ==
    {users[i].id : i \in {k \in 1..Len(users) :
                              users[k].socket_id = c /\ users[k].is_online = 1}}

\* The offline update executes; the count of online users is issued.
DisconnectMarkOffline(t) ==
    /\ t.kind = "disconnect" /\ t.pc = "markOff"
    /\ users' = MarkOffline(t.conn)
    /\ tasks' = Resume(t, [t EXCEPT !.pc = "count", !.changes = MarkedOffline(t.conn)])
    /\ UNCHANGED <<rooms, messages, calls, activeCalls, sock, log, now, nextEvt, uuids,
                   failed, overlap, seen>>

\* SELECT COUNT(*) ... returns (the count is not used): 'user-left' and
\* 'user-typing-stop' go to the other sockets of the room.
DisconnectCount(t) ==
    /\ t.kind = "disconnect" /\ t.pc = "count"
    /\ LET c == t.conn
           r == sock[c].roomCode
       IN log' = log \o
            << Notice("user-left", t.n, c, r, Others(c, r), sock[c].userId,
                      sock[c].username, 0, <<>>, <<>>, <<>>),
               Notice("user-typing-stop", t.n, c, r, Others(c, r), sock[c].userId,
                      None, 0, <<>>, <<>>, <<>>) >>
    /\ tasks' = Finish(t)
    /\ UNCHANGED <<store, activeCalls, sock, now, nextEvt, uuids, failed, overlap, seen>>

\* A store call of the disconnect handler fails: the catch logs it, nothing
\* is emitted.
DisconnectStoreError(t) ==
    /\ t.kind = "disconnect"
    /\ Fails(t)
    /\ tasks' = Finish(t)
    /\ UNCHANGED <<store, activeCalls, sock, log, now, nextEvt, uuids, overlap, seen>>

\* -------------------------------------------------------------- cleanup
\* (variant: the DELETE without the last_seen condition)
InactiveAnyAge(u) == u.is_online = 0

\* DELETE FROM users WHERE is_online = 0 AND last_seen < datetime("now", "-1 hour")
Inactive(u) == u.is_online = 0 /\ u.last_seen < now - RetentionHours

DeleteInactive ==
    LET Keep(u) == ~Inactive(u) IN SelectSeq(users, Keep)

\* One run of the setInterval callback.
Sweep ==
    /\ users' = DeleteInactive
    /\ UNCHANGED <<rooms, messages, calls, activeCalls, sock, tasks, log, now, nextEvt,
                   uuids, failed, overlap, seen>>

\* The clock advances.
Tick ==
    /\ now < MaxTime
    /\ now' = now + 1
    /\ UNCHANGED <<store, activeCalls, sock, tasks, log, nextEvt, uuids, failed,
                   overlap, seen>>

\* -------------------------------------------------------- specifications
JoinSteps ==
    \/ \E t \in tasks : JoinGetRoom(t)
    \/ \E t \in tasks : JoinInsRoom(t)
    \/ \E t \in tasks : JoinGetUser(t)
    \/ \E t \in tasks : JoinUpdUser(t)
    \/ \E t \in tasks : JoinInsUser(t)
    \/ \E t \in tasks : JoinQueryUsers(t)
    \/ \E t \in tasks : JoinQueryMessages(t)
    \/ \E t \in tasks : JoinQueryCalls(t)
    \/ \E t \in tasks : JoinStoreError(t)

\* Joins and disconnects.
NextPresence ==
    \/ \E c \in Conns, r \in RoomCodes, u \in Names : JoinRoom(c, r, u)
    \/ JoinSteps
    \/ \E c \in Conns : DisconnectIdle(c)
    \/ \E c \in Conns : Disconnect(c)
    \/ \E t \in tasks : DisconnectMarkOffline(t)
    \/ \E t \in tasks : DisconnectCount(t)
    \/ \E t \in tasks : DisconnectStoreError(t)

SpecPresence == Init /\ [][NextPresence]_vars

\* Joins, chat messages and the relays.
NextChat ==
    \/ \E c \in Conns, r \in RoomCodes, u \in Names : JoinRoom(c, r, u)
    \/ JoinSteps
    \/ \E c \in Conns, b \in Bodies : SendMessageRejected(c, b)
    \/ \E c \in Conns, b \in Bodies : SendMessage(c, b)
    \/ \E t \in tasks : SendInsert(t)
    \/ \E t \in tasks : SendStoreError(t)
    \/ \E c \in Conns : TypingStart(c)
    \/ \E c \in Conns : TypingStop(c)
    \/ \E c \in Conns, ct \in CallTypes : Offer(c, ct)
    \/ \E c \in Conns : Answer(c)
    \/ \E c \in Conns : IceCandidate(c)

SpecChat == Init /\ [][NextChat]_vars

\* Every handler and the cleanup timer.
Next ==
    \/ NextPresence
    \/ NextChat
    \/ \E c \in Conns : Ping(c)
    \/ \E c \in Conns : EndCall(c)
    \/ \E t \in tasks : EndCallUpdate(t)
    \/ \E t \in tasks : EndCallStoreError(t)
    \/ \E c \in Conns, ct \in CallTypes : CallStarted(c, ct)
    \/ \E t \in tasks : CallStartedInsert(t)
    \/ \E t \in tasks : CallStartedStoreError(t)
    \/ Sweep
    \/ Tick

Spec == Init /\ [][Next]_vars

\* Every socket handler except ping; of the store calls only those of end-call
\* and call-started fail.
NextSession ==
    \/ \E c \in Conns, r \in RoomCodes, u \in Names : JoinRoom(c, r, u)
    \/ \E t \in tasks : JoinGetRoom(t)
    \/ \E t \in tasks : JoinInsRoom(t)
    \/ \E t \in tasks : JoinGetUser(t)
    \/ \E t \in tasks : JoinUpdUser(t)
    \/ \E t \in tasks : JoinInsUser(t)
    \/ \E t \in tasks : JoinQueryUsers(t)
    \/ \E t \in tasks : JoinQueryMessages(t)
    \/ \E t \in tasks : JoinQueryCalls(t)
    \/ \E c \in Conns, b \in Bodies : SendMessageRejected(c, b)
    \/ \E c \in Conns, b \in Bodies : SendMessage(c, b)
    \/ \E t \in tasks : SendInsert(t)
    \/ \E c \in Conns : TypingStart(c)
    \/ \E c \in Conns : TypingStop(c)
    \/ \E c \in Conns, ct \in CallTypes : Offer(c, ct)
    \/ \E c \in Conns : Answer(c)
    \/ \E c \in Conns : IceCandidate(c)
    \/ \E c \in Conns : EndCall(c)
    \/ \E t \in tasks : EndCallUpdate(t)
    \/ \E t \in tasks : EndCallStoreError(t)
    \/ \E c \in Conns, ct \in CallTypes : CallStarted(c, ct)
    \/ \E t \in tasks : CallStartedInsert(t)
    \/ \E t \in tasks : CallStartedStoreError(t)
    \/ \E c \in Conns : DisconnectIdle(c)
    \/ \E c \in Conns : Disconnect(c)
    \/ \E t \in tasks : DisconnectMarkOffline(t)
    \/ \E t \in tasks : DisconnectCount(t)

SpecSession == Init /\ [][NextSession]_vars

\* Joins, disconnects, the cleanup timer and the clock; no store call fails,
\* and the clock (it counts hours) advances between handlers, not while one
\* is waiting for the store.
NextSweep ==
    \/ \E c \in Conns, r \in RoomCodes, u \in Names : JoinRoom(c, r, u)
    \/ \E t \in tasks : JoinGetRoom(t)
    \/ \E t \in tasks : JoinInsRoom(t)
    \/ \E t \in tasks : JoinGetUser(t)
    \/ \E t \in tasks : JoinUpdUser(t)
    \/ \E t \in tasks : JoinInsUser(t)
    \/ \E t \in tasks : JoinQueryUsers(t)
    \/ \E t \in tasks : JoinQueryMessages(t)
    \/ \E t \in tasks : JoinQueryCalls(t)
    \/ \E c \in Conns : DisconnectIdle(c)
    \/ \E c \in Conns : Disconnect(c)
    \/ \E t \in tasks : DisconnectMarkOffline(t)
    \/ \E t \in tasks : DisconnectCount(t)
    \/ Sweep
    \/ tasks = {} /\ Tick

\* The state in which connection c1 has joined room r1 as alice, the join
\* having run alone from Init to its end; it counts as event 0 of the run.
InitJoined ==
    /\ rooms = <<[id |-> 1, code |-> "r1"]>>
    /\ users = <<[id |-> 2, room_code |-> "r1", username |-> "alice",
                  socket_id |-> "c1", is_online |-> 1, last_seen |-> 0]>>
    /\ messages = <<>>
    /\ calls = <<>>
    /\ activeCalls = [r \in RoomCodes |-> <<>>]
    /\ sock = [c \in Conns |->
                 IF c = "c1"
                 THEN [connected |-> TRUE, roomCode |-> "r1", userId |-> 2,
                       username |-> "alice", rooms |-> {"r1"}, by |-> 0]
                 ELSE [connected |-> TRUE, roomCode |-> None, userId |-> 0,
                       username |-> None, rooms |-> {}, by |-> 0]]
    /\ tasks = {}
    /\ log = << Notice("room-joined", 0, "c1", "r1", {"c1"}, 2, "alice", 0,
                       <<[id |-> 2, username |-> "alice", isOnline |-> 1]>>,
                       <<>>, <<>>),
                Notice("user-joined", 0, "c1", "r1", {}, 2, "alice", 0,
                       <<[id |-> 2, username |-> "alice", isOnline |-> 1]>>,
                       <<>>, <<>>) >>
    /\ now = 0
    /\ nextEvt = 1
    /\ uuids = 2
    /\ failed = {}
    /\ overlap = {}
    /\ seen = [conns |-> 1, rooms |-> 1]

\* The same handlers, in the runs that begin with that join.
SpecSessionJoined == InitJoined /\ [][NextSession]_vars

SpecSweep == InitJoined /\ [][NextSweep]_vars
\* --------------------------------------------------------------- claims
LogIdx == 1..Len(log)

JoinErrors == {i \in LogIdx : log[i].ev = "error" /\ log[i].text = "Failed to join room"}

SendErrors == {i \in LogIdx : log[i].ev = "error" /\ log[i].text = "Failed to send message"}

Snapshots == {i \in LogIdx : log[i].ev = "room-joined"}

RoomRowsOf(code) == {i \in 1..Len(rooms) : rooms[i].code = code}

\* C1: as long as no store call was made to fail, every room code has at most
\* one Room row and no join-room handler has ended in an error notice (a join
\* ends with either 'room-joined' or 'error'), also when two joins to a new
\* room code both look the room up before either inserts it.
C1_ConcurrentRoomCreation ==
    /\ \A r \in RoomCodes : Cardinality(RoomRowsOf(r)) <= 1
    /\ failed = {} => JoinErrors = {}

\* C2: the users table holds at most one row per (room_code, username).
C2_UniqueUserPerRoomAndName ==
    \A i, j \in 1..Len(users) :
        (users[i].room_code = users[j].room_code /\ users[i].username = users[j].username)
            => i = j

\* C3 (its first clause): two joins of the same room code and username that
\* were never in flight together carry the same user id in their snapshots,
\* provided the row of the first snapshot's id has not been deleted.
C3_SameIdOnSequentialJoins ==
    \A i, j \in Snapshots :
        ( /\ i < j
          /\ log[i].room = log[j].room
          /\ log[i].name = log[j].name
          /\ <<log[i].n, log[j].n>> \notin overlap
          /\ <<log[j].n, log[i].n>> \notin overlap
          /\ \E k \in 1..Len(users) : users[k].id = log[i].uid )
        => log[i].uid = log[j].uid

\* C4: a 'new-message' notice carries the id of a stored Message row, and
\* every stored row was announced by one; a send-message whose insert failed
\* produced no 'new-message' notice and no row, and its only notice is the
\* 'error' to the sending connection.
NewMessages == {i \in LogIdx : log[i].ev = "new-message"}

C4_BroadcastOnlyAfterPersist ==
    /\ \A i \in NewMessages : \E k \in 1..Len(messages) : messages[k].id = log[i].mid
    /\ Len(messages) = Cardinality(NewMessages)
    /\ \A f \in failed :
          f.kind = "send" =>
             /\ \E i \in SendErrors : log[i].n = f.n
             /\ \A i \in LogIdx :
                   log[i].n = f.n => log[i].ev = "error" /\ log[i].to \subseteq {f.conn}

\* a send-message failed in a room that has another live member
C4_Witness ==
    \E f \in failed :
        /\ f.kind = "send"
        /\ \E i \in SendErrors : log[i].n = f.n /\ log[i].to = {f.conn}
        /\ InRoom(sock[f.conn].roomCode) \ {f.conn} # {}

\* C5: a send-message event arriving on a connection whose socket.roomCode or
\* socket.userId is unset issues no insert, adds no Message row, and emits
\* exactly one notice: an 'error' delivered to that connection alone.
C5_SendWithoutPresence ==
    [][\A c \in Conns, b \in Bodies :
          ( /\ SendMessage(c, b) \/ SendMessageRejected(c, b)
            /\ sock[c].roomCode = None \/ sock[c].userId = 0 )
          => /\ messages' = messages
             /\ tasks' = tasks
             /\ Len(log') = Len(log) + 1
             /\ log'[Len(log')].ev = "error"
             /\ log'[Len(log')].to = {c}
             /\ SubSeq(log', 1, Len(log)) = log]_vars

\* a send-message was rejected on a connection that has no room
C5_Witness ==
    \E i \in SendErrors :
        /\ failed = {}
        /\ sock[log[i].from].roomCode = None
        /\ log[i].to = {log[i].from}
        /\ messages = <<>>

\* C6: every room-scoped notice emitted for room R reaches exactly the live
\* connections whose socket.roomCode is R, without the emitting connection
\* except for 'new-message'.
RoomScoped ==
    {"new-message", "user-typing-start", "user-typing-stop", "offer", "answer",
     "ice-candidate", "call-ended", "user-joined", "user-left"}

Presence(r) == {c \in Conns : sock[c].connected /\ sock[c].roomCode = r}

C6_AudienceIsPresence ==
    [][\A k \in (Len(log) + 1)..Len(log') :
          log'[k].ev \in RoomScoped =>
             log'[k].to = Presence(log'[k].room) \
                            (IF log'[k].ev = "new-message" THEN {} ELSE {log'[k].from})]_vars

\* C7: a join-room of which a store call failed has left no presence behind
\* (the socket's fields were not set by it), sent no 'user-joined', and its
\* notices are 'error' notices to the joining connection alone.
C7_FailedJoinLeavesNoPresence ==
    \A f \in failed :
        f.kind = "join" =>
           /\ sock[f.conn].by # f.n
           /\ \A i \in LogIdx :
                 log[i].n = f.n => log[i].ev = "error" /\ log[i].to \subseteq {f.conn}

\* C8: the offline update of the disconnect handler of connection c changes
\* no User row whose socket_id is not c: a row that a later join moved to
\* another connection stays online on that connection.
C8_DisconnectKeyedOnStoredConnection ==
    [][\A t \in tasks :
          DisconnectMarkOffline(t) =>
             /\ Len(users') = Len(users)
             /\ \A k \in 1..Len(users) :
                   IF users[k].socket_id = t.conn
                   THEN users'[k].is_online = 0
                   ELSE users'[k] = users[k]]_vars

\* the offline update of a disconnected connection has run while the user it
\* had joined as is online on another connection
C8_Witness ==
    \E t \in tasks :
        /\ t.kind = "disconnect" /\ t.pc = "count"
        /\ \E k \in 1..Len(users) :
              /\ users[k].id = sock[t.conn].userId
              /\ users[k].socket_id # t.conn
              /\ users[k].is_online = 1

\* C9: after a disconnect whose offline update failed, every connection that
\* was in the room at the failure and still is has received the 'user-left'
\* and the 'user-typing-stop' of that disconnect.
C9_NoticesDespiteFailedOfflineUpdate ==
    \A f \in failed :
        (f.kind = "disconnect" /\ f.pc = "markOff") =>
           \A c \in f.others \cap Others(f.conn, sock[f.conn].roomCode) :
              /\ \E i \in LogIdx :
                    log[i].ev = "user-left" /\ log[i].n = f.n /\ c \in log[i].to
              /\ \E i \in LogIdx :
                    log[i].ev = "user-typing-stop" /\ log[i].n = f.n /\ c \in log[i].to

\* C10: when no handler is in flight and no store call has failed, every User
\* row with is_online = 1 stores the id of a live connection.
C10_OnlineImpliesLiveConnection ==
    (tasks = {} /\ failed = {} /\ JoinErrors = {}) =>
        \A k \in 1..Len(users) :
            users[k].is_online = 1 => sock[users[k].socket_id].connected

\* C11: of two send-message events of the same connection, the one that
\* arrived first gets the smaller Message id and its 'new-message' notice is
\* emitted first.
C11_OwnSendsKeepOrder ==
    \A i, j \in NewMessages :
        (log[i].from = log[j].from /\ log[i].n < log[j].n)
            => (log[i].mid < log[j].mid /\ i < j)

\* C12: the update of an end-call of room R changes at most one Call row: the
\* most recently started active row of R becomes ended, if R has an active
\* row, and every other Call row stays as it is.
ActiveRows(room) ==
    {k \in 1..Len(calls) : calls[k].room_code = room /\ calls[k].status = "active"}

MostRecent(k, room) ==
    \A j \in ActiveRows(room) :
        \/ calls[j].started_at < calls[k].started_at
        \/ calls[j].started_at = calls[k].started_at /\ j <= k

C12_EndCallEndsMostRecentOnly ==
    [][\A t \in tasks :
          EndCallUpdate(t) =>
             /\ Len(calls') = Len(calls)
             /\ \A k \in 1..Len(calls) :
                   IF k \in ActiveRows(t.room) /\ MostRecent(k, t.room)
                   THEN calls'[k].status = "ended"
                   ELSE calls'[k] = calls[k]]_vars

\* C13: when the update of an end-call of room R executes while R has no
\* tracker entry and no active Call row, and the sender's socket.roomCode is
\* still R, no Call row changes and exactly one notice is emitted: a
\* 'call-ended' with the sender's user id and username, received by the
\* other live connections whose socket.roomCode is R and by nobody else.
C13_EndCallWithoutCall ==
    [][\A t \in tasks :
          ( /\ EndCallUpdate(t)
            /\ activeCalls[t.room] = <<>>
            /\ ActiveRows(t.room) = {}
            /\ sock[t.conn].roomCode = t.room )
          => /\ calls' = calls
             /\ Len(log') = Len(log) + 1
             /\ SubSeq(log', 1, Len(log)) = log
             /\ log'[Len(log')].ev = "call-ended"
             /\ log'[Len(log')].uid = sock[t.conn].userId
             /\ log'[Len(log')].name = sock[t.conn].username
             /\ log'[Len(log')].to = Presence(t.room) \ {t.conn}]_vars

\* C14: the tracker entry of room R changes only when an offer or an end-call
\* of a connection whose socket.roomCode is R is handled: the offer sets it to
\* {callType, initiator} of that offer, the end-call removes it, and every
\* other step (answer, ice-candidate, call-started, typing, send-message,
\* join-room, disconnect and the store steps of all handlers) leaves it as it
\* is; an entry that is there names the sender of the latest offer of R.
OffersIn(r) == {i \in LogIdx : log[i].ev = "offer" /\ log[i].room = r}

C14_TrackerFollowsOfferAndEndCall ==
    [][\A r \in RoomCodes :
          LET offers == {o \in Conns \X CallTypes :
                            Offer(o[1], o[2]) /\ sock[o[1]].roomCode = r}
              ends == {c \in Conns : EndCall(c) /\ sock[c].roomCode = r}
          IN /\ IF offers # {}
                THEN \E o \in offers :
                        activeCalls'[r] = <<[callType |-> o[2],
                                             initiator |-> sock[o[1]].userId]>>
                ELSE IF ends # {}
                THEN activeCalls'[r] = <<>>
                ELSE activeCalls'[r] = activeCalls[r]
             /\ activeCalls[r] # <<>> =>
                   \E i \in OffersIn(r) :
                      /\ \A j \in OffersIn(r) : j <= i
                      /\ log[i].uid = activeCalls[r][1].initiator]_vars

\* the room's entry names the second of two offers by different users
C14_Witness ==
    \E r \in RoomCodes :
        /\ activeCalls[r] # <<>>
        /\ \E i, j \in LogIdx :
              /\ i < j
              /\ log[i].ev = "offer" /\ log[i].room = r
              /\ log[j].ev = "offer" /\ log[j].room = r
              /\ log[i].uid # log[j].uid
              /\ activeCalls[r][1].initiator = log[j].uid

\* C15: a run of the cleanup removes every User row that is offline with a
\* last_seen older than the retention threshold, keeps every other User row
\* (online rows whatever their last_seen, offline rows seen recently) as it
\* is and adds none, and leaves rooms, messages and calls untouched.
Expired(u) == u.is_online = 0 /\ now - u.last_seen > RetentionHours

UserIds(us) == {us[k].id : k \in 1..Len(us)}

C15_SweepDeletesExactlyExpired ==
    [][Sweep =>
          /\ \A k \in 1..Len(users) :
                IF Expired(users[k])
                THEN users[k].id \notin UserIds(users')
                ELSE \E j \in 1..Len(users') : users'[j] = users[k]
          /\ \A j \in 1..Len(users') : \E k \in 1..Len(users) : users[k] = users'[j]
          /\ Len(users') = Cardinality(UserIds(users'))
          /\ rooms' = rooms /\ messages' = messages /\ calls' = calls]_vars

\* a sweep has removed the row of a user seen long ago (its join snapshot is
\* in the log, its row is gone) and kept an offline row seen recently
C15_Witness ==
    /\ \E i \in Snapshots : log[i].uid \notin UserIds(users)
    /\ \E k \in 1..Len(users) :
          /\ users[k].is_online = 0
          /\ users[k].last_seen = now - RetentionHours

\* C16: (a) the history query of a join of room R yields exactly the Message
\* rows of R stored at that moment, in ascending creation order; (b) the
\* member-list query of a join whose connection is live yields every User
\* row of R with its online flag, online rows before offline rows and each
\* group in ascending order of username, the joiner's row among them as
\* online; and the 'room-joined' notice carries these two lists.
After(t) == CHOOSE t2 \in tasks' : t2.n = t.n

RoomMessageIds(r) == {messages[k].id : k \in {j \in 1..Len(messages) : messages[j].room_code = r}}

RoomUserRows(r) == {k \in 1..Len(users) : users[k].room_code = r}

CreatedAt(mid) == (CHOOSE m \in {messages[k] : k \in 1..Len(messages)} : m.id = mid).created_at

C16_SnapshotContents ==
    [][\A t \in tasks :
          /\ JoinQueryMessages(t) =>
                LET ms == After(t).msgs IN
                /\ {ms[k].id : k \in 1..Len(ms)} = RoomMessageIds(t.room)
                /\ Len(ms) = Cardinality(RoomMessageIds(t.room))
                /\ \A a, b \in 1..Len(ms) :
                      a < b => /\ CreatedAt(ms[a].id) <= CreatedAt(ms[b].id)
                               /\ ms[a].id < ms[b].id
          /\ (JoinQueryUsers(t) /\ sock[t.conn].connected) =>
                LET us == After(t).users IN
                /\ Len(us) = Cardinality(RoomUserRows(t.room))
                /\ \A k \in RoomUserRows(t.room) :
                      \E a \in 1..Len(us) :
                         /\ us[a].id = users[k].id
                         /\ us[a].username = users[k].username
                         /\ us[a].isOnline = users[k].is_online
                /\ \A a, b \in 1..Len(us) :
                      a < b => \/ us[a].isOnline > us[b].isOnline
                               \/ /\ us[a].isOnline = us[b].isOnline
                                  /\ NameRank(us[a].username) <= NameRank(us[b].username)
                /\ \E a \in 1..Len(us) : us[a].id = t.uid /\ us[a].isOnline = 1
          /\ JoinQueryCalls(t) =>
                \E i \in (Len(log) + 1)..Len(log') :
                   /\ log'[i].ev = "room-joined"
                   /\ log'[i].users = t.users
                   /\ log'[i].msgs = t.msgs]_vars

\* C17: when no handler is in flight and no live connection is in room R
\* (none has R as its socket.roomCode or is a member of the socket.io room
\* R), the tracker has no entry for R.
C17_TrackerDiesWithRoom ==
    \A r \in RoomCodes :
        ( /\ tasks = {}
          /\ \A c \in Conns :
                sock[c].connected => (sock[c].roomCode # r /\ r \notin sock[c].rooms) )
        => activeCalls[r] = <<>>

\* C18: a 'user-left' for user u that the disconnect handler of connection c
\* sends to some connection is sent only if the handler's offline update has
\* turned u's row from online to offline; the disconnect of an old connection
\* of a user who has since joined again on another connection sends none.
C18_UserLeftOnlyIfWentOffline ==
    [][\A t \in tasks :
          DisconnectCount(t) =>
             \A i \in (Len(log) + 1)..Len(log') :
                (log'[i].ev = "user-left" /\ log'[i].to # {})
                    => log'[i].uid \in t.changes]_vars

\* C19: for every connection c that has received the 'room-joined' snapshot
\* of a join of room R and is still connected, every Message row of R is in
\* that snapshot or was delivered to c in a 'new-message' notice.
C19_NoMessageLostToJoiner ==
    \A i \in Snapshots :
        (log[i].to # {} /\ sock[log[i].from].connected) =>
            \A k \in 1..Len(messages) :
                messages[k].room_code = log[i].room =>
                    \/ \E a \in 1..Len(log[i].msgs) : log[i].msgs[a].id = messages[k].id
                    \/ \E j \in NewMessages :
                          log[j].mid = messages[k].id /\ log[i].from \in log[j].to

\* C20: when no handler is in flight, every live connection whose
\* socket.roomCode, userId and username are set has a User row with that id,
\* room code and username, and the row is online.
C20_PresenceHasOnlineRow ==
    tasks = {} =>
        \A c \in Conns :
            (sock[c].connected /\ InARoom(c)) =>
                \E k \in 1..Len(users) :
                    /\ users[k].id = sock[c].userId
                    /\ users[k].room_code = sock[c].roomCode
                    /\ users[k].username = sock[c].username
                    /\ users[k].is_online = 1
====
